---- MODULE Spec2Model ----
(***************************************************************************)
(* Model of config-cli (src/config-cli/src/main.rs): the .env files that a *)
(* glob pattern matches are collected into one list of (key, value)        *)
(* entries, merged into the [env] table of a TOML document, and the        *)
(* document is written back with two marker lines around the [env] table.  *)
(*                                                                         *)
(* A string (Rust String / &str) is a sequence of tokens.  A token is one  *)
(* character (" ", "#", "x", NL, ...) or an atomic piece of text that the  *)
(* program never looks into (a key name, a marker's wording).              *)
(***************************************************************************)
EXTENDS Integers, Sequences, FiniteSets, TLC

VARIABLES
    preserve_order,    \* build: toml's Table is an insertion-ordered map (feature preserve_order) or a BTreeMap
    fs,                \* the regular files the pattern matches: path -> (key -> raw value), as env_file_reader parses them
    outFile,           \* out_path: [exists, content]
    parentDir,         \* whether out_path's parent directory exists
    pc,                \* position of the run
    env_paths,         \* get_env_vars: the sorted Vec<PathBuf>
    fileIdx,           \* get_env_vars: index in env_paths of the file being read (0: none yet)
    pending,           \* get_env_vars: pairs of the current file the for loop has not yet yielded
    env_vars,          \* get_env_vars: HashMap key -> flattened value
    env_paths_by_key,  \* get_env_vars: HashMap key -> defining path
    entries,           \* the Vec<(String, String)> get_env_vars returns
    err,               \* the error get_merge_bytes returns, or NoError
    file_content,      \* get_merge_bytes: text handed to merge_existing_toml
    config,            \* merge_existing_toml: the toml::Value after the inserts
    env_section_index, \* add_prefix: keys counted before "env"
    bytes,             \* the bytes get_merge_bytes returns
    raw,               \* flattening on its own: a raw value
    flat               \* flattening on its own: [done, value], the collected value

vars == <<preserve_order, fs, outFile, parentDir, pc, env_paths, fileIdx,
          pending, env_vars, env_paths_by_key, entries, err, file_content,
          config, env_section_index, bytes, raw, flat>>

(***************************************************************************)
(* Bounds                                                                  *)
(***************************************************************************)
MaxKeysPerFile == 2
MaxRawLen == 4

(***************************************************************************)
(* Strings                                                                 *)
(***************************************************************************)
NL == "\n"

Last(s) == s[Len(s)]
Front(s) == SubSeq(s, 1, Len(s) - 1)

\* char::is_whitespace on the model's alphabet
IsWhitespace(c) == c \in {" ", NL}

RECURSIVE TrimStart(_)
TrimStart(s) ==
    IF s # <<>> /\ IsWhitespace(Head(s)) THEN TrimStart(Tail(s)) ELSE s

RECURSIVE TrimEnd(_)
TrimEnd(s) ==
    IF s # <<>> /\ IsWhitespace(Last(s)) THEN TrimEnd(Front(s)) ELSE s

\* str::trim
Trim(s) == TrimEnd(TrimStart(s))

\* str::split('\n'): the pieces between line feeds, at least one piece
SplitNL(s) ==
    LET feeds == {i \in 1..Len(s) : s[i] = NL}
        feed(k) == CHOOSE i \in feeds : Cardinality({j \in feeds : j < i}) = k - 1
        n == Cardinality(feeds)
    IN [k \in 1..(n + 1) |->
           SubSeq(s, IF k = 1 THEN 1 ELSE feed(k - 1) + 1,
                     IF k = n + 1 THEN Len(s) ELSE feed(k) - 1)]

\* str::lines: as split('\n'), but a final line ending opens no further line
Lines(s) ==
    IF s = <<>> THEN <<>>
    ELSE LET p == SplitNL(s) IN IF Last(p) = <<>> THEN Front(p) ELSE p

\* [&str]::join
RECURSIVE Join(_, _)
Join(v, sep) ==
    IF v = <<>> THEN <<>>
    ELSE IF Len(v) = 1 THEN v[1]
    ELSE v[1] \o sep \o Join(Tail(v), sep)

\* str::starts_with("#")
StartsWithHash(s) == s # <<>> /\ Head(s) = "#"

SEP == <<"|", "|", "|", "|">>

\* a line the filter of get_env_vars keeps
KeepsLine(s) == ~StartsWithHash(s)

\* value.trim().lines().filter(|s| !s.starts_with("#")).collect().join("||||")
Flatten(value) == Join(SelectSeq(Lines(Trim(value)), KeepsLine), SEP)

(***************************************************************************)
(* Names: keys, paths and table names are atomic tokens.  Rust compares    *)
(* Strings byte by byte; ByteOrder lists the model's names in that order.  *)
(***************************************************************************)
ByteOrder ==
    <<"A", "B", "B.env", "K", "a", "a.env", "b", "b.env", "build", "c.env",
      "env", "k", "m", "t", "zz">>

ByteRank(n) == CHOOSE i \in 1..Len(ByteOrder) : ByteOrder[i] = n

\* str::to_lowercase
ToLowercase(n) ==
    CASE n = "A" -> "a"
      [] n = "B" -> "b"
      [] n = "K" -> "k"
      [] n = "B.env" -> "b.env"
      [] OTHER -> n

(***************************************************************************)
(* toml::Value restricted to what the model's documents hold: the root     *)
(* table maps a key to a string or to a table of strings.  A map is the    *)
(* sequence of its entries in iteration order.                             *)
(***************************************************************************)
StrEntry(k, s) == [key |-> k, isTable |-> FALSE, str |-> s, tbl |-> <<>>]
TblEntry(k, t) == [key |-> k, isTable |-> TRUE, str |-> <<>>, tbl |-> t]

HasKey(m, k) == \E i \in 1..Len(m) : m[i].key = k
IndexOf(m, k) == CHOOSE i \in 1..Len(m) : m[i].key = k
Get(m, k) == m[IndexOf(m, k)]
KeysOf(m) == {m[i].key : i \in 1..Len(m)}

\* Map::insert: an existing key keeps its place; a new key goes to its sorted
\* place in a BTreeMap and to the end of an insertion-ordered map
MapInsert(po, m, e) ==
    IF HasKey(m, e.key) THEN [m EXCEPT ![IndexOf(m, e.key)] = e]
    ELSE IF po THEN Append(m, e)
    ELSE LET n == Cardinality({i \in 1..Len(m) : ByteRank(m[i].key) < ByteRank(e.key)})
         IN SubSeq(m, 1, n) \o <<e>> \o SubSeq(m, n + 1, Len(m))

(***************************************************************************)
(* toml::to_string_pretty: the keys holding strings first, then each table *)
(* under its header, a blank line before every header but the text's      *)
(* first line.  A string holding a line feed is printed as a multi-line    *)
(* literal string: k = ''' and then its lines, the last one closed by '''. *)
(***************************************************************************)
KvLine(k, s) == <<k, " = ", "\"">> \o s \o <<"\"">>
OpenLine(k) == <<k, " = ", "'''">>
HeaderLine(k) == <<"[", k, "]">>

StrLines(k, s) ==
    IF \E i \in 1..Len(s) : s[i] = NL
    THEN LET p == SplitNL(s) IN
         <<OpenLine(k)>> \o Front(p) \o << Last(p) \o <<"'''">> >>
    ELSE <<KvLine(k, s)>>

RECURSIVE EntriesLines(_)
EntriesLines(m) ==
    IF m = <<>> THEN <<>>
    ELSE StrLines(m[1].key, m[1].str) \o EntriesLines(Tail(m))

IsTableEntry(e) == e.isTable
IsStrEntry(e) == ~e.isTable

RECURSIVE TablesLines(_, _)
TablesLines(ts, first) ==
    IF ts = <<>> THEN <<>>
    ELSE (IF first THEN <<>> ELSE << <<>> >>)
         \o <<HeaderLine(ts[1].key)>> \o EntriesLines(ts[1].tbl)
         \o TablesLines(Tail(ts), FALSE)

PrettyLines(root) ==
    LET strs == SelectSeq(root, IsStrEntry) IN
    EntriesLines(strs) \o TablesLines(SelectSeq(root, IsTableEntry), strs = <<>>)

\* the text of to_string_pretty: every line ends with a line feed
to_string_pretty(root) ==
    LET ls == PrettyLines(root) IN
    IF ls = <<>> THEN <<>> ELSE Join(ls, <<NL>>) \o <<NL>>

(***************************************************************************)
(* toml::from_str on the lines of a text.  Outside a multi-line string a   *)
(* blank line and a comment are skipped; inside one every line is content  *)
(* up to the line that ends with '''.                                      *)
(***************************************************************************)
IsKvLine(l) == Len(l) >= 4 /\ l[2] = " = " /\ l[3] = "\"" /\ Last(l) = "\""
IsOpenLine(l) == Len(l) = 3 /\ l[2] = " = " /\ l[3] = "'''"
IsHeaderLine(l) == Len(l) = 3 /\ l[1] = "[" /\ l[3] = "]"
IsCloseLine(l) == l # <<>> /\ Last(l) = "'''"

ParseStart ==
    [ok |-> TRUE, root |-> <<>>, cur |-> "", ml |-> FALSE, mlkey |-> "", acc |-> <<>>]

\* key k with string s read in the current table; a key defined twice is an error
ParsePut(po, st, k, s) ==
    IF st.cur = ""
    THEN IF HasKey(st.root, k) THEN [st EXCEPT !.ok = FALSE]
         ELSE [st EXCEPT !.root = MapInsert(po, st.root, StrEntry(k, s))]
    ELSE LET t == Get(st.root, st.cur).tbl IN
         IF HasKey(t, k) THEN [st EXCEPT !.ok = FALSE]
         ELSE [st EXCEPT !.root =
                  MapInsert(po, st.root, TblEntry(st.cur, MapInsert(po, t, StrEntry(k, s))))]

ParseLine(po, st, l) ==
    IF ~st.ok THEN st
    ELSE IF st.ml THEN
        IF IsCloseLine(l)
        THEN [ParsePut(po, st, st.mlkey, Join(Append(st.acc, Front(l)), <<NL>>))
                 EXCEPT !.ml = FALSE, !.acc = <<>>]
        ELSE [st EXCEPT !.acc = Append(st.acc, l)]
    ELSE IF l = <<>> \/ StartsWithHash(l) THEN st
    ELSE IF IsHeaderLine(l) THEN
        IF HasKey(st.root, l[2]) THEN [st EXCEPT !.ok = FALSE]
        ELSE [st EXCEPT !.root = MapInsert(po, st.root, TblEntry(l[2], <<>>)), !.cur = l[2]]
    ELSE IF IsOpenLine(l) THEN [st EXCEPT !.ml = TRUE, !.mlkey = l[1], !.acc = <<>>]
    ELSE IF IsKvLine(l) THEN ParsePut(po, st, l[1], SubSeq(l, 4, Len(l) - 1))
    ELSE [st EXCEPT !.ok = FALSE]

RECURSIVE ParseLines(_, _, _)
ParseLines(po, st, ls) ==
    IF ls = <<>> THEN st ELSE ParseLines(po, ParseLine(po, st, Head(ls)), Tail(ls))

\* toml::from_str: [ok, root]; an unterminated multi-line string is an error
from_str(po, text) ==
    LET st == ParseLines(po, ParseStart, SplitNL(text)) IN
    [ok |-> st.ok /\ ~st.ml, root |-> st.root]

(***************************************************************************)
(* The program's constants and pure parts                                  *)
(***************************************************************************)
START == <<"#", " GENERATED BY ENV_TO_CONFIG_TOML START", NL>>
END == <<NL, "#", " GENERATED BY ENV_TO_CONFIG_TOML END", NL>>

NoFile == [exists |-> FALSE, content |-> <<>>]
File(text) == [exists |-> TRUE, content |-> text]
NotYet == [done |-> FALSE, value |-> <<>>]
NoError == [type |-> "none", key |-> "", current |-> "", previous |-> ""]
NoFileFound == [type |-> "NoFileFound", key |-> "", current |-> "", previous |-> ""]
ParseError == [type |-> "ParseError", key |-> "", current |-> "", previous |-> ""]
DuplicateKey(k, cur, prev) ==
    [type |-> "DuplicateKey", key |-> k, current |-> cur, previous |-> prev]

\* glob yields the matched paths in alphabetical order
RECURSIVE glob(_)
glob(paths) ==
    IF paths = {} THEN <<>>
    ELSE LET p == CHOOSE x \in paths : \A y \in paths : ByteRank(x) <= ByteRank(y)
         IN <<p>> \o glob(paths \ {p})

\* the key env_paths is sorted by
PathSortKey(p) == ByteRank(ToLowercase(p))

\* sort_paths gone wrong: env_paths left in the order glob yields them
sort_paths_unsorted(ps) == ps

\* env_paths.sort_by_key(|path| path.to_str().unwrap().to_lowercase()), a stable sort
RECURSIVE sort_paths(_)
sort_paths(ps) ==
    IF ps = <<>> THEN <<>>
    ELSE LET done == sort_paths(Front(ps))
             n == Cardinality({i \in 1..Len(done) :
                                  PathSortKey(done[i]) <= PathSortKey(Last(ps))})
         IN SubSeq(done, 1, n) \o <<Last(ps)>> \o SubSeq(done, n + 1, Len(done))

\* the key env_vars is sorted by
EntrySortKey(e) == ByteRank(ToLowercase(e.key))

\* env_vars.sort_by_key(|(key, _)| key.to_lowercase()), a stable sort
RECURSIVE sort_entries(_)
sort_entries(es) ==
    IF es = <<>> THEN <<>>
    ELSE LET done == sort_entries(Front(es))
             n == Cardinality({i \in 1..Len(done) :
                                  EntrySortKey(done[i]) <= EntrySortKey(Last(es))})
         IN SubSeq(done, 1, n) \o <<Last(es)>> \o SubSeq(done, n + 1, Len(done))

\* the orders in which a HashMap may yield the keys S
IterationOrders(S) ==
    {s \in [1..Cardinality(S) -> S] : \A i, j \in DOMAIN s : i # j => s[i] # s[j]}

\* table.entry("env").or_insert_with(|| Table::new())
WithEnvTable(po, root) ==
    IF HasKey(root, "env") THEN root ELSE MapInsert(po, root, TblEntry("env", <<>>))

\* InsertAll gone wrong: a key the table already holds keeps its old value
RECURSIVE InsertAllKeepsOld(_, _, _)
InsertAllKeepsOld(po, env_table, es) ==
    IF es = <<>> THEN env_table
    ELSE InsertAllKeepsOld(po,
             IF HasKey(env_table, es[1].key) THEN env_table
             ELSE MapInsert(po, env_table, StrEntry(es[1].key, es[1].value)),
             Tail(es))

\* for (key, value) in env_vars { env_table.insert(key, Value::String(value)) }
RECURSIVE InsertAll(_, _, _)
InsertAll(po, env_table, es) ==
    IF es = <<>> THEN env_table
    ELSE InsertAll(po, MapInsert(po, env_table, StrEntry(es[1].key, es[1].value)), Tail(es))

\* the toml::Value of merge_existing_toml after its inserts, from the parsed root
MergedConfig(po, root, es) ==
    LET r == WithEnvTable(po, root)
        old_table == Get(r, "env").tbl
    IN [r EXCEPT ![IndexOf(r, "env")].tbl = InsertAll(po, old_table, es)]

\* add_prefix: the keys the loop counts before it meets "env"
EnvSectionIndex(root) == IndexOf(root, "env") - 1

\* position of the START marker in lines
StartPos(root) == EnvSectionIndex(root)

\* position of the END marker in lines
EndPos(root, len) == EnvSectionIndex(root) + len + 2

\* Vec::insert, which panics when index > len
VecInsert(v, index, e) == SubSeq(v, 1, index) \o <<e>> \o SubSeq(v, index + 1, Len(v))

\* add_prefix: [panicked, text]
add_prefix(root, len) ==
    LET lines == Lines(to_string_pretty(root))
        i1 == StartPos(root)
        i2 == EndPos(root, len)
    IN IF i1 > Len(lines) \/ i2 > Len(lines) + 1
       THEN [panicked |-> TRUE, text |-> <<>>]
       ELSE [panicked |-> FALSE,
             text |-> Join(VecInsert(VecInsert(lines, i1, START), i2, END), <<NL>>)]

\* merge_existing_toml as a function of its arguments: [ok, panicked, config, text]
merge_existing_toml(po, es, content) ==
    LET parsed == from_str(po, content) IN
    IF ~parsed.ok
    THEN [ok |-> FALSE, panicked |-> FALSE, config |-> <<>>, text |-> <<>>]
    ELSE LET cfg == MergedConfig(po, parsed.root, es)
             out == add_prefix(cfg, Len(Get(cfg, "env").tbl))
         IN [ok |-> TRUE, panicked |-> out.panicked, config |-> cfg, text |-> out.text]

(***************************************************************************)
(* Inputs: the files the pattern matches and the document at out_path      *)
(***************************************************************************)
Paths == {"B.env", "a.env", "c.env"}
Keys == {"A", "B", "a"}
AllKeys == Keys \cup {"K"}

RawPool == { <<"1">>, <<"x", NL, "#", "c", NL, "y">> }

KeySets == {S \in SUBSET Keys : Cardinality(S) <= MaxKeysPerFile}

EmptyMap == <<>>

\* the text whose lines are ls, each ended by a line feed
TextOf(ls) == IF ls = <<>> THEN <<>> ELSE Join(ls, <<NL>>) \o <<NL>>

DocEmpty == <<>>
DocEnv ==
    TextOf(<< HeaderLine("env"), KvLine("a", <<"0">>), KvLine("K", <<"o">>) >>)
DocBefore ==
    TextOf(<< KvLine("t", <<"1">>), <<>>, HeaderLine("build"), KvLine("k", <<"1">>) >>)
DocBeforeEnv ==
    TextOf(<< <<"#", " cargo">>, HeaderLine("build"), KvLine("k", <<"1">>), <<>>,
              HeaderLine("env"), KvLine("K", <<"o">>) >>)
DocAfter ==
    TextOf(<< HeaderLine("env"), KvLine("K", <<"o">>), <<>>,
              HeaderLine("zz"), KvLine("k", <<"1">>) >>)
DocAfterOnly ==
    TextOf(<< HeaderLine("zz"), KvLine("k", <<"1">>) >>)
DocMultiLine ==
    TextOf(<< OpenLine("m"), <<"x">>, <<"y", "'''">> >>)
DocEnvMultiLine ==
    TextOf(<< HeaderLine("env"), OpenLine("K"), <<"x">>, <<"y", "'''">> >>)
DocInvalid ==
    TextOf(<< HeaderLine("env"), <<"x">> >>)
\* a document an earlier run wrote
DocGenerated ==
    TextOf(<< Front(START), <<>>, HeaderLine("env"), KvLine("a", <<"0">>), <<>>,
              Tail(Front(END)) >>)

ExistingDocs ==
    { DocEmpty, DocEnv, DocBefore, DocBeforeEnv, DocAfter, DocAfterOnly,
      DocMultiLine, DocEnvMultiLine, DocInvalid, DocGenerated }

FewFiles ==
    { ("a.env" :> ("a" :> <<"1">>)),
      ("a.env" :> ("a" :> <<"1">> @@ "B" :> <<" ", "x", NL, "#", "c", NL, "y", NL>>)),
      ("B.env" :> ("K" :> <<"n">>) @@ "a.env" :> ("A" :> <<"2">> @@ "a" :> <<"1">>)) }

Idle ==
    /\ env_paths = <<>>
    /\ fileIdx = 0
    /\ pending = {}
    /\ env_vars = EmptyMap
    /\ env_paths_by_key = EmptyMap
    /\ entries = <<>>
    /\ err = NoError
    /\ file_content = <<>>
    /\ config = <<>>
    /\ env_section_index = 0
    /\ bytes = <<>>

\* many sets of files, few documents
InitFiles ==
    /\ \E present \in SUBSET Paths : \E ks \in [present -> KeySets] : \E r \in RawPool :
          fs = [p \in present |-> [k \in ks[p] |-> r]]
    /\ \/ outFile = NoFile /\ parentDir \in BOOLEAN
       \/ outFile = File(DocEnv) /\ parentDir = TRUE

\* few sets of files, many documents
InitDocs ==
    /\ fs \in FewFiles
    /\ \/ outFile = NoFile /\ parentDir \in BOOLEAN
       \/ \E d \in ExistingDocs : outFile = File(d) /\ parentDir = TRUE

Init ==
    /\ preserve_order \in BOOLEAN
    /\ InitFiles \/ InitDocs
    /\ pc = "main"
    /\ Idle
    /\ raw = <<>>
    /\ flat = NotYet

(***************************************************************************)
(* get_env_vars                                                            *)
(***************************************************************************)
\* glob, the filter, the emptiness test and the sort of env_paths
Glob ==
    /\ pc = "main"
    /\ DOMAIN fs # {}
    /\ env_paths' = sort_paths(glob(DOMAIN fs))
    /\ pc' = "read"
    /\ UNCHANGED <<preserve_order, fs, outFile, parentDir, fileIdx, pending, env_vars,
                   env_paths_by_key, entries, err, file_content, config,
                   env_section_index, bytes, raw, flat>>

\* env_paths.is_empty(): Err(NoFileFound)
NoFileMatched ==
    /\ pc = "main"
    /\ DOMAIN fs = {}
    /\ err' = NoFileFound
    /\ pc' = "error"
    /\ UNCHANGED <<preserve_order, fs, outFile, parentDir, env_paths, fileIdx, pending,
                   env_vars, env_paths_by_key, entries, file_content, config,
                   env_section_index, bytes, raw, flat>>

\* the outer loop takes the next path and read_file parses it
ReadFile ==
    /\ pc = "read"
    /\ pending = {}
    /\ fileIdx < Len(env_paths)
    /\ fileIdx' = fileIdx + 1
    /\ pending' = DOMAIN fs[env_paths[fileIdx + 1]]
    /\ UNCHANGED <<preserve_order, fs, outFile, parentDir, pc, env_paths, env_vars,
                   env_paths_by_key, entries, err, file_content, config,
                   env_section_index, bytes, raw, flat>>

\* the inner loop yields a pair whose key is new
InsertPair ==
    /\ pc = "read"
    /\ \E key \in pending :
          /\ key \notin DOMAIN env_vars
          /\ env_vars' = (key :> Flatten(fs[env_paths[fileIdx]][key])) @@ env_vars
          /\ env_paths_by_key' = (key :> env_paths[fileIdx]) @@ env_paths_by_key
          /\ pending' = pending \ {key}
    /\ UNCHANGED <<preserve_order, fs, outFile, parentDir, pc, env_paths, fileIdx,
                   entries, err, file_content, config, env_section_index, bytes,
                   raw, flat>>

\* the error built for a key met again
DuplicateError(key, env_path, duplicate_path) ==
    DuplicateKey(key, env_path, duplicate_path)

\* the inner loop yields a pair whose key env_vars already holds
Duplicate ==
    /\ pc = "read"
    /\ \E key \in pending :
          /\ key \in DOMAIN env_vars
          /\ err' = DuplicateError(key, env_paths[fileIdx], env_paths_by_key[key])
    /\ pc' = "error"
    /\ UNCHANGED <<preserve_order, fs, outFile, parentDir, env_paths, fileIdx, pending,
                   env_vars, env_paths_by_key, entries, file_content, config,
                   env_section_index, bytes, raw, flat>>

\* Collected gone wrong: keys are lower-cased when they are collected
CollectedLowercase(order) ==
    [i \in DOMAIN order |-> [key |-> ToLowercase(order[i]), value |-> env_vars[order[i]]]]

\* the Vec collected from the HashMap, in an order of its iterator
Collected(order) == [i \in DOMAIN order |-> [key |-> order[i], value |-> env_vars[order[i]]]]

\* all files read: the map is collected into a Vec and sorted
SortEnvVars ==
    /\ pc = "read"
    /\ pending = {}
    /\ fileIdx = Len(env_paths)
    /\ \E order \in IterationOrders(DOMAIN env_vars) :
          entries' = sort_entries(Collected(order))
    /\ pc' = "exists"
    /\ UNCHANGED <<preserve_order, fs, outFile, parentDir, env_paths, fileIdx, pending,
                   env_vars, env_paths_by_key, err, file_content, config,
                   env_section_index, bytes, raw, flat>>

(***************************************************************************)
(* get_merge_bytes, merge_existing_toml, add_prefix, main                  *)
(***************************************************************************)
\* out_path exists: its text is read
ReadExisting ==
    /\ pc = "exists"
    /\ outFile.exists
    /\ file_content' = outFile.content
    /\ pc' = "merge"
    /\ UNCHANGED <<preserve_order, fs, outFile, parentDir, env_paths, fileIdx, pending,
                   env_vars, env_paths_by_key, entries, err, config,
                   env_section_index, bytes, raw, flat>>

\* out_path does not exist: create_dir_all(parent), and the text is ""
CreateParent ==
    /\ pc = "exists"
    /\ ~outFile.exists
    /\ parentDir' = TRUE
    /\ file_content' = <<>>
    /\ pc' = "merge"
    /\ UNCHANGED <<preserve_order, fs, outFile, env_paths, fileIdx, pending, env_vars,
                   env_paths_by_key, entries, err, config, env_section_index, bytes,
                   raw, flat>>

\* toml::from_str(file_content)? fails
ParseFails ==
    /\ pc = "merge"
    /\ ~from_str(preserve_order, file_content).ok
    /\ err' = ParseError
    /\ pc' = "error"
    /\ UNCHANGED <<preserve_order, fs, outFile, parentDir, env_paths, fileIdx, pending,
                   env_vars, env_paths_by_key, entries, file_content, config,
                   env_section_index, bytes, raw, flat>>

\* merge_existing_toml: parse, the [env] table, the inserts, add_prefix
Merge ==
    /\ pc = "merge"
    /\ LET r == merge_existing_toml(preserve_order, entries, file_content) IN
          /\ r.ok
          /\ config' = r.config
          /\ env_section_index' = EnvSectionIndex(r.config)
          /\ bytes' = r.text
          /\ pc' = IF r.panicked THEN "panicked" ELSE "ok"
    /\ UNCHANGED <<preserve_order, fs, outFile, parentDir, env_paths, fileIdx, pending,
                   env_vars, env_paths_by_key, entries, err, file_content, raw, flat>>

\* main, Ok(bytes): File::create(out_path) and write_all(bytes)
WriteFile ==
    /\ pc = "ok"
    /\ outFile' = File(bytes)
    /\ pc' = "done"
    /\ UNCHANGED <<preserve_order, fs, parentDir, env_paths, fileIdx, pending, env_vars,
                   env_paths_by_key, entries, err, file_content, config,
                   env_section_index, bytes, raw, flat>>

\* LogError gone wrong: main creates the output file before it looks at the result
LogErrorTruncates ==
    /\ pc = "error"
    /\ pc' = "failed"
    /\ outFile' = File(<<>>)
    /\ UNCHANGED <<preserve_order, fs, parentDir, env_paths, fileIdx, pending,
                   env_vars, env_paths_by_key, entries, err, file_content, config,
                   env_section_index, bytes, raw, flat>>

\* main, Err(e): the error is logged and main returns
LogError ==
    /\ pc = "error"
    /\ pc' = "failed"
    /\ UNCHANGED <<preserve_order, fs, outFile, parentDir, env_paths, fileIdx, pending,
                   env_vars, env_paths_by_key, entries, err, file_content, config,
                   env_section_index, bytes, raw, flat>>

Next ==
    \/ Glob
    \/ NoFileMatched
    \/ ReadFile
    \/ InsertPair
    \/ Duplicate
    \/ SortEnvVars
    \/ ReadExisting
    \/ CreateParent
    \/ ParseFails
    \/ Merge
    \/ WriteFile
    \/ LogError

Spec == Init /\ [][Next]_vars

(***************************************************************************)
(* Flattening on its own: every raw value of at most MaxRawLen characters  *)
(***************************************************************************)
RawChars == {" ", NL, "#", "x"}

RawValues == UNION {[1..n -> RawChars] : n \in 0..MaxRawLen}

FlattenInit ==
    /\ preserve_order = FALSE
    /\ fs = EmptyMap
    /\ outFile = NoFile
    /\ parentDir = FALSE
    /\ pc = "idle"
    /\ Idle
    /\ raw \in RawValues
    /\ flat = NotYet

\* the value a pair of a file is collected with
FlattenValue ==
    /\ ~flat.done
    /\ flat' = [done |-> TRUE, value |-> Flatten(raw)]
    /\ UNCHANGED <<preserve_order, fs, outFile, parentDir, pc, env_paths, fileIdx,
                   pending, env_vars, env_paths_by_key, entries, err, file_content,
                   config, env_section_index, bytes, raw>>

FlattenNext == FlattenValue

FlattenSpec == FlattenInit /\ [][FlattenNext]_vars

(***************************************************************************)
(* What the properties below speak of                                      *)
(***************************************************************************)
\* the files that define key k
Definers(k) == {p \in DOMAIN fs : k \in DOMAIN fs[p]}

\* the keys that two different files define
SharedKeys == {k \in AllKeys : Cardinality(Definers(k)) >= 2}

\* p is visited before q: case-insensitive order of the path strings
VisitedBefore(p, q) == ByteRank(ToLowercase(p)) < ByteRank(ToLowercase(q))

FirstOf(S) == CHOOSE p \in S : \A q \in S \ {p} : VisitedBefore(p, q)
FirstDefiner(k) == FirstOf(Definers(k))
SecondDefiner(k) == FirstOf(Definers(k) \ {FirstDefiner(k)})

\* get_env_vars has returned
Collecting == pc \in {"main", "read"}
Failed == pc \in {"error", "failed"}
Merged == pc \in {"ok", "done"}

\* the (key, value) pairs of a table
PairsOf(tbl) == {<<tbl[i].key, tbl[i].str>> : i \in 1..Len(tbl)}

\* the [env] table of a root table, empty when it has none
EnvTableOf(root) == IF HasKey(root, "env") THEN Get(root, "env").tbl ELSE <<>>

\* the document the run started from, and the one its bytes parse to
ExistingRoot == from_str(preserve_order, file_content).root
Reparsed == from_str(preserve_order, bytes)

\* every pair of every file, with its collected value
CollectedPairs ==
    UNION {{<<k, Flatten(fs[p][k])>> : k \in DOMAIN fs[p]} : p \in DOMAIN fs}

\* the entries of a root table other than env, in order
NotEnv(e) == e.key # "env"
OutsideEnv(root) == SelectSeq(root, NotEnv)

(***************************************************************************)
(* C1: when two files define the same key, get_env_vars returns no entry   *)
(* list but DuplicateKey(key, current, previous): previous is the first    *)
(* file, in case-insensitive path order, that defines the key, current the *)
(* second one, and no other shared key is met again in an earlier file.    *)
(***************************************************************************)
C1_DuplicateKey ==
    /\ (SharedKeys # {} /\ ~Collecting) =>
          Failed /\ err.type = "DuplicateKey" /\ entries = <<>>
    /\ err.type = "DuplicateKey" =>
          /\ err.key \in SharedKeys
          /\ err.previous = FirstDefiner(err.key)
          /\ err.current = SecondDefiner(err.key)
          /\ VisitedBefore(err.previous, err.current)
          /\ \A k \in SharedKeys : ~VisitedBefore(SecondDefiner(k), err.current)

\* a.env is visited before B.env although "B" < "a" byte-wise
C1_Witness ==
    /\ pc = "failed"
    /\ err.type = "DuplicateKey"
    /\ err.current = "B.env"
    /\ err.previous = "a.env"
    /\ Cardinality(DOMAIN fs) = 3

\* merged into an empty document, the env section holds the pairs of all files, each once
C2_UnionCorrect ==
    (Merged /\ file_content = <<>>) =>
        /\ Reparsed.ok
        /\ PairsOf(EnvTableOf(Reparsed.root)) = CollectedPairs
        /\ Len(EnvTableOf(Reparsed.root)) = Cardinality(CollectedPairs)
        /\ KeysOf(Reparsed.root) = {"env"}

C3_Idempotent ==
    Merged =>
        LET again == merge_existing_toml(preserve_order, entries, bytes) IN
        again.ok /\ ~again.panicked /\ again.text = bytes

(***************************************************************************)
(* C4: the returned text parses to a document whose top-level keys other   *)
(* than env are those of the existing document, with the same values, in   *)
(* the same order.                                                         *)
(***************************************************************************)
C4_OutsideEnvUnchanged ==
    Merged => (Reparsed.ok /\ OutsideEnv(Reparsed.root) = OutsideEnv(ExistingRoot))

\* the marker lines as they stand in the text, and the place of a line in it
StartLine == Front(START)
EndLine == Tail(Front(END))

LineIndex(ls, l) == CHOOSE i \in 1..Len(ls) : ls[i] = l

(***************************************************************************)
(* C5: in the returned text the START marker line comes before the [env]   *)
(* header with only blank lines between them, and the END marker line      *)
(* comes after the last line of the env section and before the next        *)
(* section's header.                                                       *)
(***************************************************************************)
C5_MarkersBracketEnv ==
    Merged =>
        LET ls == SplitNL(bytes)
            s == LineIndex(ls, StartLine)
            h == LineIndex(ls, HeaderLine("env"))
            e == LineIndex(ls, EndLine)
            later == {i \in (h + 1)..Len(ls) : IsHeaderLine(ls[i])}
            next == IF later = {} THEN Len(ls) + 1
                    ELSE CHOOSE i \in later : \A j \in later : i <= j
            printed == {i \in h..(next - 1) : ls[i] \notin {<<>>, StartLine, EndLine}}
        IN /\ s < h
           /\ \A i \in (s + 1)..(h - 1) : ls[i] = <<>>
           /\ \A i \in printed : i < e
           /\ e < next

FirstNonWhitespaceIsHash(s) == StartsWithHash(TrimStart(s))
IsNoComment(s) == ~FirstNonWhitespaceIsHash(s)

(***************************************************************************)
(* C7: the collected value is the raw value trimmed, split into lines,     *)
(* without the lines whose first character that is not whitespace is '#',  *)
(* the other lines joined by "||||".                                       *)
(***************************************************************************)
C7_Flattening ==
    flat.done => flat.value = Join(SelectSeq(Lines(Trim(raw)), IsNoComment), SEP)

(***************************************************************************)
(* C8: an error ends the run and writes nothing: the output file changes   *)
(* in the one step that writes the bytes of a merge that succeeded, and    *)
(* once get_merge_bytes has returned an error the file stays as it was.    *)
(***************************************************************************)
C8_ErrorWritesNothing ==
    [][/\ outFile' # outFile => (pc = "ok" /\ pc' = "done" /\ err = NoError
                                  /\ outFile' = File(bytes))
       /\ Failed => (Failed' /\ outFile' = outFile /\ err' = err /\ err # NoError)]_vars

\* the existing document does not parse; the error was logged
C8_Witness ==
    /\ pc = "failed"
    /\ err = ParseError
    /\ outFile = File(DocInvalid)

(***************************************************************************)
(* C9: the entries come sorted by lower-cased key, and keys that differ in *)
(* case only in their case-sensitive order.                                *)
(***************************************************************************)
C9_FixedOrder ==
    ~Collecting =>
        \A i, j \in 1..Len(entries) :
            i < j =>
                \/ EntrySortKey(entries[i]) < EntrySortKey(entries[j])
                \/ /\ EntrySortKey(entries[i]) = EntrySortKey(entries[j])
                   /\ ByteRank(entries[i].key) < ByteRank(entries[j].key)

(***************************************************************************)
(* C10: when the existing document has no env section, the new one is the  *)
(* last key of the root table, add_prefix counts every old top-level key   *)
(* before it, and its header is the last header of the text.               *)
(***************************************************************************)
C10_EnvAppended ==
    (Merged /\ ~HasKey(ExistingRoot, "env")) =>
        /\ config[Len(config)].key = "env"
        /\ env_section_index = Len(ExistingRoot)
        /\ LET ls == SplitNL(bytes)
               h == LineIndex(ls, HeaderLine("env"))
           IN \A i \in 1..Len(ls) : IsHeaderLine(ls[i]) => i <= h
====
